---------------------------- MODULE Spec2Model ----------------------------
(***************************************************************************)
(* Server-side tunnel data plane of castle (tunneld):                      *)
(*   - create_socket and the public-port allocator  (PortSpec)             *)
(*   - the bridge handshake, the UDP per-datagram worker and the TCP       *)
(*     listener loop with its splice                 (Spec, FairSpec)      *)
(***************************************************************************)
EXTENDS Integers, Sequences, FiniteSets, TLC

VARIABLES
    \* ---- create_socket / PortManager ----
    free,        \* PortManager: the set of currently free ports of the range
    removed,     \* PortManager: ports permanently marked unusable by remove()
    leases,      \* what successful create_socket callers hold: [proto, port, dyn]
    cs,          \* the create_socket call in progress, or the last one's return
    \* ---- one tunnel: its listener loop, its bridges, its control session ----
    kind,          \* the tunnel's protocol: "udp" (Udp::serve) or "tcp" (handle_listener)
    shutdown,      \* the tunnel's cancellation token
    loop,          \* where the listener loop is
    minted,        \* number of stream ids minted so far; ids are 1..minted
    pc,            \* per bridge: where its worker task is
    dgram,         \* per bridge: the (payload, peer) of the datagram that opened it
    enq,           \* per bridge: every frame ever enqueued on to_client, in order
    rd,            \* per bridge: how many frames the worker has pulled off to_client
    client_cancel, \* per bridge: the client_cancel token
    remove_signal, \* per bridge: the remove_bridge token
    bg,            \* per bridge: the background task that forwards Remove
    incoming,      \* every event sent on the registry channel (user_incoming), in order
    consumed,      \* how many of them the control session has received
    registry,      \* the control session's map of active bridges (its keys)
    pushed,        \* per bridge: what the worker pushed on the sender handle
    hand,          \* per bridge: the bytes the worker holds for the user
    out,           \* per bridge: what the worker sent to the user, in order
    pump,          \* per bridge: the two copy directions of a TCP connection
    \* ---- TcpManager::handle_listeners ----
    events,        \* every registration event sent to the manager, in order
    handled,       \* how many of them the manager has received
    mgr,           \* where the manager's loop is
    chan           \* the manager's event channel: "open", or "closed" once every sender is dropped

portVars == <<free, removed, leases, cs>>

bridgeVars == <<pc, dgram, enq, rd, client_cancel, remove_signal, bg, pushed, hand, out, pump>>

tunnelVars == <<kind, shutdown, loop, minted, incoming, consumed, registry, bridgeVars>>

regVars == <<events, handled, mgr, chan>>

vars == <<portVars, tunnelVars, regVars>>

-----------------------------------------------------------------------------
(* Bounds *)

RangeSize == 2

\* Frames the client gets to send, all streams together.
MaxFrames == 3

\* Chunks the users get to send, all TCP connections together.
MaxChunks == 2

-----------------------------------------------------------------------------
(* Ports and sockets *)

\* SocketCreator implementations: a TCP listener or a UDP socket.
Proto == {"tcp", "udp"}

\* The configured inclusive port range [lo, hi] of the PortManager.
Range == 2 .. (1 + RangeSize)

\* Ports a caller may ask for with port > 0: one privileged port outside the
\* range, and the ports of the range.
Privileged == {1}
FixedPorts == Privileged \cup Range

\* A <<proto, port>> pair is bound by a socket this server holds.
Occupied(proto, port) ==
    \E l \in leases : l.proto = proto /\ l.port = port

\* A bind that never reports a port this server already holds (SO_REUSEPORT).
BindOutcomes_Reuse(proto, port) ==
    {"Ok", "AddrInUse", "Other"}
    \cup (IF port \in Privileged THEN {"PermissionDenied"} ELSE {})

\* What bind(("0.0.0.0", port)) can answer: "Ok" or a std::io::ErrorKind.
\* A port this server holds is in use; any other port may be held by another
\* process of the host, be privileged, or fail for another reason.
BindOutcomes(proto, port) ==
    IF Occupied(proto, port)
    THEN {"AddrInUse"}
    ELSE {"Ok", "AddrInUse", "Other"}
         \cup (IF port \in Privileged THEN {"PermissionDenied"} ELSE {})

map_bind_error_swapped(errkind) ==
    CASE errkind = "AddrInUse"        -> "Internal"
      [] errkind = "PermissionDenied" -> "PermissionDenied"
      [] OTHER                     -> "AlreadyExists"

map_bind_error(errkind) ==
    CASE errkind = "AddrInUse"        -> "AlreadyExists"
      [] errkind = "PermissionDenied" -> "PermissionDenied"
      [] OTHER                     -> "Internal"

\* pc: where the call is; proto, port: its arguments; cur: the port got from
\* the allocator; tried: the ports bind was attempted on, in order; outcome:
\* the last bind's answer; status, ret: what the call returned.
IdleCall ==
    [pc |-> "idle", proto |-> "tcp", port |-> 0, cur |-> 0, tried |-> <<>>,
     outcome |-> "none", status |-> "none", ret |-> 0]

PortInit ==
    /\ free = Range
    /\ removed = {}
    /\ leases = {}
    /\ cs = IdleCall
    /\ kind = "udp" /\ shutdown = FALSE /\ loop = "select" /\ minted = 0
    /\ pc = <<>> /\ dgram = <<>> /\ enq = <<>> /\ rd = <<>>
    /\ client_cancel = <<>> /\ remove_signal = <<>> /\ bg = <<>>
    /\ incoming = <<>> /\ consumed = 0 /\ registry = {}
    /\ pushed = <<>> /\ hand = <<>> /\ out = <<>> /\ pump = <<>>
    /\ events = <<>> /\ handled = 0 /\ mgr = "recv" /\ chan = "open"

\* create_socket(port, port_manager) is entered: port > 0 takes the fixed
\* branch, port == 0 the retry loop.
CallCreateSocket(proto, port) ==
    /\ cs.pc = "idle"
    /\ cs' = [IdleCall EXCEPT !.pc = IF port > 0 THEN "fixed_bind" ELSE "get",
                              !.proto = proto, !.port = port]
    /\ UNCHANGED <<free, removed, leases, tunnelVars, regVars>>

\* A fixed-port branch that falls back to the allocator when the bind fails.
FixedBind_Retry ==
    /\ cs.pc = "fixed_bind"
    /\ \E o \in BindOutcomes(cs.proto, cs.port) :
         IF o = "Ok"
         THEN /\ leases' = leases \cup
                     {[proto |-> cs.proto, port |-> cs.port, dyn |-> FALSE]}
              /\ cs' = [cs EXCEPT !.pc = "idle", !.tried = Append(@, cs.port),
                                  !.outcome = o, !.status = "Ok", !.ret = cs.port]
         ELSE /\ leases' = leases
              /\ cs' = [cs EXCEPT !.pc = "get", !.tried = Append(@, cs.port),
                                  !.outcome = o]
    /\ UNCHANGED <<free, removed, tunnelVars, regVars>>

\* A fixed-port branch that keeps the allocator informed: a port it binds is
\* taken from the free set, a port it fails to bind is removed.
FixedBind_UsesManager ==
    /\ cs.pc = "fixed_bind"
    /\ \E o \in BindOutcomes(cs.proto, cs.port) :
         IF o = "Ok"
         THEN /\ leases' = leases \cup
                     {[proto |-> cs.proto, port |-> cs.port, dyn |-> FALSE]}
              /\ cs' = [cs EXCEPT !.pc = "idle", !.tried = Append(@, cs.port),
                                  !.outcome = o, !.status = "Ok", !.ret = cs.port]
              /\ free' = free \ {cs.port}
              /\ removed' = removed
         ELSE /\ leases' = leases
              /\ cs' = [cs EXCEPT !.pc = "idle", !.tried = Append(@, cs.port),
                                  !.outcome = o, !.status = map_bind_error(o)]
              /\ free' = free
              /\ removed' = removed \cup ({cs.port} \cap Range)
    /\ UNCHANGED <<tunnelVars, regVars>>

\* let socket = T::create_socket(port).await?; Ok((port.into(), socket))
FixedBind ==
    /\ cs.pc = "fixed_bind"
    /\ \E o \in BindOutcomes(cs.proto, cs.port) :
         IF o = "Ok"
         THEN /\ leases' = leases \cup
                     {[proto |-> cs.proto, port |-> cs.port, dyn |-> FALSE]}
              /\ cs' = [cs EXCEPT !.pc = "idle", !.tried = Append(@, cs.port),
                                  !.outcome = o, !.status = "Ok", !.ret = cs.port]
         ELSE /\ leases' = leases
              /\ cs' = [cs EXCEPT !.pc = "idle", !.tried = Append(@, cs.port),
                                  !.outcome = o, !.status = map_bind_error(o)]
    /\ UNCHANGED <<free, removed, tunnelVars, regVars>>

\* An allocator that hands out a free port without taking it from the free set.
DynGet_NoPop ==
    /\ cs.pc = "get"
    /\ IF free = {}
       THEN /\ cs' = [cs EXCEPT !.pc = "idle", !.status = "ResourceExhausted"]
            /\ free' = free
       ELSE \E p \in free :
            /\ free' = free
            /\ cs' = [cs EXCEPT !.pc = "dyn_bind", !.cur = p]
    /\ UNCHANGED <<removed, leases, tunnelVars, regVars>>

\* port_manager.get(): None => ResourceExhausted, Some(port) => try to bind it.
DynGet ==
    /\ cs.pc = "get"
    /\ IF free = {}
       THEN /\ cs' = [cs EXCEPT !.pc = "idle", !.status = "ResourceExhausted"]
            /\ free' = free
       ELSE \E p \in free :
            /\ free' = free \ {p}
            /\ cs' = [cs EXCEPT !.pc = "dyn_bind", !.cur = p]
    /\ UNCHANGED <<removed, leases, tunnelVars, regVars>>

\* A retry that hands the failed port back to the free set instead of removing it.
DynBindFailed_NoRemove ==
    /\ \E o \in BindOutcomes(cs.proto, cs.cur) \ {"Ok"} :
         cs' = [cs EXCEPT !.pc = "get", !.tried = Append(@, cs.cur), !.outcome = o]
    /\ free' = free \cup {cs.cur}
    /\ UNCHANGED <<removed, leases, tunnelVars, regVars>>

\* if result.is_err() { port_manager.remove(*port); continue; }
DynBindFailed ==
    /\ \E o \in BindOutcomes(cs.proto, cs.cur) \ {"Ok"} :
         cs' = [cs EXCEPT !.pc = "get", !.tried = Append(@, cs.cur), !.outcome = o]
    /\ removed' = removed \cup {cs.cur}
    /\ UNCHANGED <<free, leases, tunnelVars, regVars>>

\* let result = T::create_socket(*port).await; ... return Ok((port, result.unwrap()))
DynBind ==
    /\ cs.pc = "dyn_bind"
    /\ \/ /\ "Ok" \in BindOutcomes(cs.proto, cs.cur)
          /\ cs' = [cs EXCEPT !.pc = "idle", !.tried = Append(@, cs.cur),
                              !.outcome = "Ok", !.status = "Ok", !.ret = cs.cur]
          /\ leases' = leases \cup {[proto |-> cs.proto, port |-> cs.cur, dyn |-> TRUE]}
          /\ UNCHANGED <<free, removed, tunnelVars, regVars>>
       \/ DynBindFailed

\* A release that forgets to hand the port back.
Release_KeepsPort(l) ==
    /\ l \in leases
    /\ leases' = leases \ {l}
    /\ UNCHANGED <<free, removed, cs, tunnelVars, regVars>>

\* The holder drops its socket and its Available: the socket is closed and a
\* port leased by the allocator returns to the free set.
Release(l) ==
    /\ l \in leases
    /\ leases' = leases \ {l}
    /\ free' = IF l.dyn /\ l.port \notin removed THEN free \cup {l.port} ELSE free
    /\ UNCHANGED <<removed, cs, tunnelVars, regVars>>

PortNext ==
    \/ \E proto \in Proto, port \in {0} \cup FixedPorts : CallCreateSocket(proto, port)
    \/ FixedBind
    \/ DynGet
    \/ DynBind
    \/ \E l \in leases : Release(l)

PortSpec == PortInit /\ [][PortNext]_vars

\* The steps of a running create_socket call are taken; callers and holders
\* are under no obligation.
FairPortSpec ==
    PortSpec /\ WF_vars(FixedBind) /\ WF_vars(DynGet) /\ WF_vars(DynBind)

-----------------------------------------------------------------------------
(* Claims about create_socket *)

DynLeases == {l \in leases : l.dyn}
DynPorts == {l.port : l \in DynLeases}
InHand == IF cs.pc = "dyn_bind" THEN {cs.cur} ELSE {}
ReturnsOk == cs.pc # "idle" /\ cs'.pc = "idle" /\ cs'.status = "Ok"

\* C6 (as stated): whenever create_socket returns a port successfully, no
\* earlier successful caller still holds that port number: between two
\* successful returns of one port there is a release of it.
C6_NoPortHeldTwice ==
    [][ReturnsOk => \A l \in leases : l.port # cs'.ret]_vars

\* C6 (amended): whenever create_socket returns a port successfully, no earlier
\* successful caller still holds that port for the same kind of socket (TCP
\* listener or UDP socket); a TCP and a UDP holder of one port number coexist.
C6_NoSocketHeldTwice ==
    [][ReturnsOk => \A l \in leases : ~(l.port = cs'.ret /\ l.proto = cs'.proto)]_vars

\* C6 witness: a successful return while one fixed and one dynamic lease hold
\* the same port number for the two kinds of socket.
C6_Witness ==
    /\ cs.pc = "idle" /\ cs.status = "Ok"
    /\ \E l1, l2 \in leases :
         /\ l1.port = cs.ret /\ l2.port = cs.ret
         /\ l1.proto # l2.proto /\ ~l1.dyn /\ l2.dyn

\* C7: as long as every port of the range of N ports has been bindable (no
\* bind of an allocated port has failed), every port of the range is free, in
\* the hand of the running call or leased to exactly one dynamic caller, so
\* dynamic registrations get distinct ports of the range and one succeeds
\* whenever fewer than N are leased (also after a release); a dynamic call
\* returns ResourceExhausted only with all N ports leased.
C7_ExhaustionAfterN ==
    /\ [](removed = {} =>
            /\ free \cup DynPorts \cup InHand = Range
            /\ free \cap (DynPorts \cup InHand) = {}
            /\ DynPorts \cap InHand = {}
            /\ Cardinality(DynLeases) = Cardinality(DynPorts))
    /\ [][(removed = {} /\ cs.pc = "get" /\ cs'.pc = "idle") =>
            /\ cs'.status = "ResourceExhausted"
            /\ Cardinality(DynLeases) = RangeSize]_vars
    /\ [][(removed = {} /\ cs.pc = "get" /\ cs' # cs
                /\ Cardinality(DynLeases) < RangeSize) => cs'.pc = "dyn_bind"]_vars

\* C7 witness: N dynamic leases are held, nothing failed to bind, and the
\* (N+1)-th dynamic call has returned ResourceExhausted.
C7_Witness ==
    /\ removed = {}
    /\ Cardinality(DynLeases) = RangeSize
    /\ cs.pc = "idle" /\ cs.port = 0 /\ cs.status = "ResourceExhausted"

Distinct(seq) == \A i, j \in 1..Len(seq) : seq[i] = seq[j] => i = j
FailedPorts ==
    {cs.tried[i] : i \in 1..(IF cs.status = "Ok" THEN Len(cs.tried) - 1 ELSE Len(cs.tried))}

\* C8: a dynamic call (port == 0) always returns; the ports it tried are
\* pairwise different, every port whose bind failed is removed and out of the
\* free set, it returns ResourceExhausted only when the free set is empty, and
\* otherwise the port it returns is the one it took from the free set and the
\* socket it returns is bound to that port.
C8_RetryLoopTerminates ==
    /\ [](cs.port = 0 =>
            /\ Distinct(cs.tried)
            /\ FailedPorts \subseteq removed
            /\ FailedPorts \cap free = {}
            /\ \A i \in 1..Len(cs.tried) : cs.tried[i] \in Range)
    /\ [][(cs.pc = "get" /\ cs'.pc = "idle") =>
            (free = {} /\ cs'.status = "ResourceExhausted")]_vars
    /\ [][(cs.pc = "get" /\ cs' # cs /\ free # {}) =>
            (cs'.pc = "dyn_bind" /\ cs'.cur \in free)]_vars
    /\ [][(cs.pc = "dyn_bind" /\ cs'.pc = "idle") =>
            /\ cs'.status = "Ok" /\ cs'.ret = cs.cur
            /\ [proto |-> cs.proto, port |-> cs.cur, dyn |-> TRUE] \in leases']_vars
    /\ (cs.pc \in {"get", "dyn_bind"} ~> cs.pc = "idle")

\* C8 witness: a dynamic call returned the second port it tried, after the
\* bind of the first one failed and that port was removed.
C8_Witness ==
    /\ cs.pc = "idle" /\ cs.port = 0 /\ cs.status = "Ok"
    /\ Len(cs.tried) = 2 /\ cs.tried[1] \in removed /\ cs.ret = cs.tried[2]

\* C9: a fixed-port call (port > 0) makes exactly one bind attempt, on that
\* port, never asks the allocator, and returns Ok with that port or the status
\* of the bind error: AddrInUse -> AlreadyExists, PermissionDenied ->
\* PermissionDenied, anything else -> Internal.
C9_FixedPortSingleAttempt ==
    cs.port > 0 =>
        /\ cs.pc \in {"idle", "fixed_bind"}
        /\ cs.pc = "fixed_bind" => cs.tried = <<>>
        /\ cs.pc = "idle" =>
             /\ cs.tried = <<cs.port>>
             /\ cs.outcome = "Ok" => (cs.status = "Ok" /\ cs.ret = cs.port)
             /\ cs.outcome = "AddrInUse" => cs.status = "AlreadyExists"
             /\ cs.outcome = "PermissionDenied" => cs.status = "PermissionDenied"
             /\ cs.outcome = "Other" => cs.status = "Internal"
             /\ cs.outcome \in {"Ok", "AddrInUse", "PermissionDenied", "Other"}

\* C9 witness: a fixed-port call on a port this server already holds returned
\* AlreadyExists after its single attempt.
C9_Witness ==
    /\ cs.pc = "idle" /\ cs.port > 0
    /\ cs.outcome = "AddrInUse" /\ cs.status = "AlreadyExists"
    /\ Occupied(cs.proto, cs.port)

-----------------------------------------------------------------------------
(* One tunnel: bridges, the control session, the listener loops *)

\* Stream ids are opaque (Uuid::new_v4()); two of them let one bridge run
\* beside another. The k-th id minted is k.
StreamIds == {1, 2}

\* Peers that send datagrams, and the payloads they send.
Peers == {"p1"}
Payloads == {<<7>>}

Bridges == 1..minted

\* BridgeData::Sender(handle) and BridgeData::Data(bytes).
SenderFrame == [type |-> "Sender", data |-> <<>>]
DataFrame(bytes) == [type |-> "Data", data |-> bytes]

\* The client's n-th Data frame of a stream carries the bytes <<n>>.
NData(b) == Cardinality({i \in 1..Len(enq[b]) : enq[b][i].type = "Data"})

\* Frames sent by the client and chunks read from the users so far.
RECURSIVE SumLen(_, _)
SumLen(f, n) == IF n = 0 THEN 0 ELSE Len(f[n]) + SumLen(f, n - 1)
FramesSent == SumLen(enq, minted)
RECURSIVE SumRead(_)
SumRead(n) == IF n = 0 THEN 0 ELSE pump[n].nread + SumRead(n - 1)
ChunksRead == SumRead(minted)

Added(b) == [op |-> "Add", id |-> b]
Removed(b) == [op |-> "Remove", id |-> b]
AddConsumed(b) == \E i \in 1..consumed : incoming[i] = Added(b)

\* Every sender of the bridge's to_client channel is dropped: the worker's own
\* clone (dropped when the handshake returns) and the one the session holds.
Closed(b) ==
    /\ pc[b] \notin {"init", "handshake", "await_sender"}
    /\ b \notin registry
    /\ (AddConsumed(b) \/ shutdown)

\* The to_client frames not yet pulled by the worker.
Pending(b) == rd[b] < Len(enq[b])
NextFrame(b) == enq[b][rd[b] + 1]

TunnelInit ==
    /\ free = Range /\ removed = {} /\ leases = {} /\ cs = IdleCall
    /\ kind \in {"udp", "tcp"}
    /\ shutdown = FALSE /\ loop = "select" /\ minted = 0
    /\ pc = <<>> /\ dgram = <<>> /\ enq = <<>> /\ rd = <<>>
    /\ client_cancel = <<>> /\ remove_signal = <<>> /\ bg = <<>>
    /\ incoming = <<>> /\ consumed = 0 /\ registry = {}
    /\ pushed = <<>> /\ hand = <<>> /\ out = <<>> /\ pump = <<>>
    /\ events = <<>> /\ handled = 0 /\ mgr = "recv" /\ chan = "open"

\* r2t: remote_to_me_to_tunnel, t2r: tunnel_to_me_to_remove; nread: chunks read
\* from the user socket so far (the k-th one is <<k>>); rhand: the chunk read
\* and not yet pushed.
IdlePump == [r2t |-> "idle", t2r |-> "idle", nread |-> 0, rhand |-> <<>>]

\* A new stream: its worker task, its to_client channel and its tokens.
Spawn(first, d) ==
    /\ minted' = minted + 1
    /\ pc' = Append(pc, first)
    /\ dgram' = Append(dgram, d)
    /\ enq' = Append(enq, <<>>)
    /\ rd' = Append(rd, 0)
    /\ client_cancel' = Append(client_cancel, FALSE)
    /\ remove_signal' = Append(remove_signal, FALSE)
    /\ bg' = Append(bg, "none")
    /\ pushed' = Append(pushed, <<>>)
    /\ hand' = Append(hand, <<>>)
    /\ out' = Append(out, <<>>)
    /\ pump' = Append(pump, IdlePump)

(* ---- Udp::serve ---- *)

\* select! { result = remote_reader.recv_from(&mut buf) => tokio::spawn(...) }
UdpRecvFrom(peer, payload) ==
    /\ kind = "udp" /\ loop = "select"
    /\ minted + 1 \in StreamIds
    /\ Spawn("init", [peer |-> peer, payload |-> payload])
    /\ UNCHANGED <<portVars, regVars, kind, shutdown, loop, incoming, consumed, registry>>

\* A loop that returns when recv_from fails.
UdpRecvErr_Returns ==
    /\ kind = "udp" /\ loop = "select"
    /\ loop' = "returned"
    /\ UNCHANGED <<portVars, regVars, kind, shutdown, minted, incoming, consumed, registry, bridgeVars>>

\* result = remote_reader.recv_from(&mut buf) => Err(err): the spawned task
\* logs "failed to receive data" and ends; the loop goes round.
UdpRecvErr ==
    /\ kind = "udp" /\ loop = "select"
    /\ UNCHANGED vars

\* select! { _ = shutdown_listener.cancelled() => return }
UdpShutdown ==
    /\ kind = "udp" /\ loop = "select"
    /\ shutdown
    /\ loop' = "returned"
    /\ UNCHANGED <<portVars, regVars, kind, shutdown, minted, incoming, consumed, registry, bridgeVars>>

(* ---- init_data_sender_bridge ---- *)

\* The bridge is sent to the control server as Add and the task that forwards
\* Remove is spawned.
InitBridge(b) ==
    /\ pc[b] = "init"
    /\ incoming' = Append(incoming, Added(b))
    /\ bg' = [bg EXCEPT ![b] = "waiting"]
    /\ pc' = [pc EXCEPT ![b] = "handshake"]
    /\ UNCHANGED <<portVars, regVars, kind, shutdown, loop, minted, consumed, registry,
                   dgram, enq, rd, client_cancel, remove_signal, pushed, hand, out, pump>>

\* A handshake that takes whatever frame comes first.
HandshakeRecv_AnyFrame(b) ==
    /\ pc[b] = "handshake"
    /\ Pending(b)
    /\ rd' = [rd EXCEPT ![b] = @ + 1]
    /\ pc' = [pc EXCEPT ![b] = "send"]
    /\ UNCHANGED <<portVars, regVars, kind, shutdown, loop, minted, incoming, consumed, registry,
                   dgram, enq, client_cancel, remove_signal, bg, pushed, hand, out, pump>>

\* A handshake that hands the worker a drained channel: what was enqueued
\* behind the Sender when it returns is lost.
HandshakeRecv_Drains(b) ==
    /\ pc[b] = "handshake"
    /\ Pending(b)
    /\ rd' = [rd EXCEPT ![b] = IF NextFrame(b).type = "Sender" THEN Len(enq[b]) ELSE @ + 1]
    /\ pc' = [pc EXCEPT ![b] = IF NextFrame(b).type = "Sender" THEN "send" ELSE "panicked"]
    /\ UNCHANGED <<portVars, regVars, kind, shutdown, loop, minted, incoming, consumed, registry,
                   dgram, enq, client_cancel, remove_signal, bg, pushed, hand, out, pump>>

\* data_sender = bridge_chan_receiver.recv(): Some(Sender(sender)) => sender,
\* anything else panics. The bridge is returned and Udp::transfer starts.
HandshakeRecv(b) ==
    /\ pc[b] = "handshake"
    /\ Pending(b)
    /\ rd' = [rd EXCEPT ![b] = @ + 1]
    /\ pc' = [pc EXCEPT ![b] = IF NextFrame(b).type = "Sender" THEN "send" ELSE "panicked"]
    /\ UNCHANGED <<portVars, regVars, kind, shutdown, loop, minted, incoming, consumed, registry,
                   dgram, enq, client_cancel, remove_signal, bg, pushed, hand, out, pump>>

\* A cancel branch that returns the error without raising remove_signal.
HandshakeCancel_NoSignal(b) ==
    /\ pc[b] = "handshake"
    /\ client_cancel[b]
    /\ pc' = [pc EXCEPT ![b] = "hs_cancelled"]
    /\ UNCHANGED <<portVars, regVars, kind, shutdown, loop, minted, incoming, consumed, registry,
                   dgram, enq, rd, client_cancel, remove_signal, bg, pushed, hand, out, pump>>

\* _ = client_cancel_receiver.cancelled() => { remove_bridge_sender.cancel();
\* return Err("client cancelled") }; the caller's unwrap() ends the task.
HandshakeCancel(b) ==
    /\ pc[b] = "handshake"
    /\ client_cancel[b]
    /\ remove_signal' = [remove_signal EXCEPT ![b] = TRUE]
    /\ pc' = [pc EXCEPT ![b] = "hs_cancelled"]
    /\ UNCHANGED <<portVars, regVars, kind, shutdown, loop, minted, incoming, consumed, registry,
                   dgram, enq, rd, client_cancel, bg, pushed, hand, out, pump>>

\* A forwarding task that waits for the token again after sending Remove.
BgRemove_Loop(b) ==
    /\ bg[b] = "waiting"
    /\ remove_signal[b]
    /\ incoming' = Append(incoming, Removed(b))
    /\ UNCHANGED <<portVars, regVars, kind, shutdown, loop, minted, consumed, registry, bridgeVars>>

\* A forwarding task that sends Remove without waiting for the token, and
\* that runs before the Add was sent.
BgRemove_NoWait(b) ==
    /\ bg[b] \in {"none", "waiting"}
    /\ incoming' = Append(incoming, Removed(b))
    /\ bg' = [bg EXCEPT ![b] = "sent"]
    /\ UNCHANGED <<portVars, regVars, kind, shutdown, loop, minted, consumed, registry,
                   pc, dgram, enq, rd, client_cancel, remove_signal, pushed, hand, out, pump>>

\* remove_bridge_receiver.cancelled().await; send(UserIncoming::Remove(id))
BgRemove(b) ==
    /\ bg[b] = "waiting"
    /\ remove_signal[b]
    /\ incoming' = Append(incoming, Removed(b))
    /\ bg' = [bg EXCEPT ![b] = "sent"]
    /\ UNCHANGED <<portVars, regVars, kind, shutdown, loop, minted, consumed, registry,
                   pc, dgram, enq, rd, client_cancel, remove_signal, pushed, hand, out, pump>>

(* ---- Udp::transfer and the end of the per-datagram task ---- *)

\* select! { cancelled() => {}  data_sender.send(buf.to_vec()) => Err => return }
TransferSend(b) ==
    /\ kind = "udp" /\ pc[b] = "send"
    /\ \/ /\ client_cancel[b]
          /\ pc' = [pc EXCEPT ![b] = "recv"]
          /\ pushed' = pushed
       \/ /\ pushed' = [pushed EXCEPT ![b] = Append(@, dgram[b].payload)]
          /\ pc' = [pc EXCEPT ![b] = "recv"]
       \/ /\ pc' = [pc EXCEPT ![b] = "finish"]
          /\ pushed' = pushed
    /\ UNCHANGED <<portVars, regVars, kind, shutdown, loop, minted, incoming, consumed, registry,
                   dgram, enq, rd, client_cancel, remove_signal, bg, hand, out, pump>>

\* A second select! that takes a Sender frame as if it were Data.
TransferRecv_AcceptsSender(b) ==
    /\ kind = "udp" /\ pc[b] = "recv"
    /\ \/ /\ client_cancel[b]
          /\ pc' = [pc EXCEPT ![b] = "reply"]
          /\ UNCHANGED <<rd, hand>>
       \/ /\ Pending(b)
          /\ rd' = [rd EXCEPT ![b] = @ + 1]
          /\ hand' = [hand EXCEPT ![b] = NextFrame(b).data]
          /\ pc' = [pc EXCEPT ![b] = "reply"]
       \/ /\ ~Pending(b) /\ Closed(b)
          /\ pc' = [pc EXCEPT ![b] = "finish"]
          /\ UNCHANGED <<rd, hand>>
    /\ UNCHANGED <<portVars, regVars, kind, shutdown, loop, minted, incoming, consumed, registry,
                   dgram, enq, client_cancel, remove_signal, bg, pushed, out, pump>>

\* let mut data = vec![]; select! { cancelled() => {}  data_receiver.recv() =>
\* None => return, Data(data) => data, Sender(_) => panic }
TransferRecv(b) ==
    /\ kind = "udp" /\ pc[b] = "recv"
    /\ \/ /\ client_cancel[b]
          /\ pc' = [pc EXCEPT ![b] = "reply"]
          /\ UNCHANGED <<rd, hand>>
       \/ /\ Pending(b)
          /\ rd' = [rd EXCEPT ![b] = @ + 1]
          /\ IF NextFrame(b).type = "Data"
             THEN /\ hand' = [hand EXCEPT ![b] = NextFrame(b).data]
                  /\ pc' = [pc EXCEPT ![b] = "reply"]
             ELSE /\ hand' = hand
                  /\ pc' = [pc EXCEPT ![b] = "panicked"]
       \/ /\ ~Pending(b) /\ Closed(b)
          /\ pc' = [pc EXCEPT ![b] = "finish"]
          /\ UNCHANGED <<rd, hand>>
    /\ UNCHANGED <<portVars, regVars, kind, shutdown, loop, minted, incoming, consumed, registry,
                   dgram, enq, client_cancel, remove_signal, bg, pushed, out, pump>>

\* select! { cancelled() => {}  remote_writer.send_to(data, remote_addr) => log Err }
TransferReply(b) ==
    /\ kind = "udp" /\ pc[b] = "reply"
    /\ \/ /\ client_cancel[b]
          /\ out' = out
       \/ out' = [out EXCEPT ![b] = Append(@, [peer |-> dgram[b].peer, data |-> hand[b]])]
       \/ out' = out
    /\ pc' = [pc EXCEPT ![b] = "finish"]
    /\ UNCHANGED <<portVars, regVars, kind, shutdown, loop, minted, incoming, consumed, registry,
                   dgram, enq, rd, client_cancel, remove_signal, bg, pushed, hand, pump>>

\* remove_bridge_sender.cancel(); the task ends.
Finish(b) ==
    /\ kind = "udp" /\ pc[b] = "finish"
    /\ remove_signal' = [remove_signal EXCEPT ![b] = TRUE]
    /\ pc' = [pc EXCEPT ![b] = "done"]
    /\ UNCHANGED <<portVars, regVars, kind, shutdown, loop, minted, incoming, consumed, registry,
                   dgram, enq, rd, client_cancel, bg, pushed, hand, out, pump>>

(* ---- The control session and its client ---- *)

\* A session that receives Remove(id) and keeps the entry.
RegistryRecv_KeepsEntry ==
    /\ ~shutdown
    /\ consumed < Len(incoming)
    /\ consumed' = consumed + 1
    /\ registry' = IF incoming[consumed + 1].op = "Add"
                   THEN registry \cup {incoming[consumed + 1].id}
                   ELSE registry
    /\ UNCHANGED <<portVars, regVars, kind, shutdown, loop, minted, incoming, bridgeVars>>

\* The session receives the next event of the registry channel.
RegistryRecv ==
    /\ ~shutdown
    /\ consumed < Len(incoming)
    /\ consumed' = consumed + 1
    /\ registry' = IF incoming[consumed + 1].op = "Add"
                   THEN registry \cup {incoming[consumed + 1].id}
                   ELSE registry \ {incoming[consumed + 1].id}
    /\ UNCHANGED <<portVars, regVars, kind, shutdown, loop, minted, incoming, bridgeVars>>

\* TrafficToServer { stream_id, Start }: the session delivers Sender(h).
ClientStart(b) ==
    /\ b \in registry
    /\ FramesSent < MaxFrames
    /\ enq' = [enq EXCEPT ![b] = Append(@, SenderFrame)]
    /\ UNCHANGED <<portVars, regVars, kind, shutdown, loop, minted, incoming, consumed, registry,
                   pc, dgram, rd, client_cancel, remove_signal, bg, pushed, hand, out, pump>>

\* TrafficToServer { stream_id, Sending, payload }: the session delivers Data.
ClientSending(b) ==
    /\ b \in registry
    /\ FramesSent < MaxFrames
    /\ enq' = [enq EXCEPT ![b] = Append(@, DataFrame(<<NData(b) + 1>>))]
    /\ UNCHANGED <<portVars, regVars, kind, shutdown, loop, minted, incoming, consumed, registry,
                   pc, dgram, rd, client_cancel, remove_signal, bg, pushed, hand, out, pump>>

\* A Close that cancels every bridge of the session.
ClientClose_All(b) ==
    /\ b \in registry
    /\ client_cancel' = [o \in DOMAIN client_cancel |-> TRUE]
    /\ UNCHANGED <<portVars, regVars, kind, shutdown, loop, minted, incoming, consumed, registry,
                   pc, dgram, enq, rd, remove_signal, bg, pushed, hand, out, pump>>

\* TrafficToServer { stream_id, Close }: DataSenderBridge::close cancels the
\* bridge's client_cancel token; cancelling it again changes nothing.
ClientClose(b) ==
    /\ b \in registry
    /\ client_cancel' = [client_cancel EXCEPT ![b] = TRUE]
    /\ UNCHANGED <<portVars, regVars, kind, shutdown, loop, minted, incoming, consumed, registry,
                   pc, dgram, enq, rd, remove_signal, bg, pushed, hand, out, pump>>

\* The session closes (client disconnect, session cancel or server shutdown):
\* its bridges get client_cancel, its registry is dropped and the tunnel's
\* cancellation token is cancelled.
Shutdown ==
    /\ ~shutdown
    /\ shutdown' = TRUE
    /\ client_cancel' = [b \in DOMAIN client_cancel |-> client_cancel[b] \/ b \in registry]
    /\ registry' = {}
    /\ UNCHANGED <<portVars, regVars, kind, loop, minted, incoming, consumed,
                   pc, dgram, enq, rd, remove_signal, bg, pushed, hand, out, pump>>

(* ---- TcpManager::handle_listener ---- *)

\* The pump of bridge b ends when both directions are done (tokio::join!).
Joined(p) == IF p.r2t = "done" /\ p.t2r = "done" THEN "done" ELSE "pump"

\* select! { _ = cancel.cancelled() => return }
TcpCancel ==
    /\ kind = "tcp" /\ loop = "select"
    /\ shutdown
    /\ loop' = "returned"
    /\ UNCHANGED <<portVars, regVars, kind, shutdown, minted, incoming, consumed, registry, bridgeVars>>

\* result = listener.accept(): the connection gets an id and a channel, and is
\* sent to the control server; the loop then awaits the channel's first message.
TcpAccept(peer) ==
    /\ kind = "tcp" /\ loop = "select"
    /\ minted + 1 \in StreamIds
    /\ Spawn("await_sender", [peer |-> peer, payload |-> <<>>])
    /\ incoming' = Append(incoming, Added(minted + 1))
    /\ loop' = "await_sender"
    /\ UNCHANGED <<portVars, regVars, kind, shutdown, consumed, registry>>

\* let (stream, addr) = result.unwrap(): an accept error panics the loop.
TcpAcceptErr ==
    /\ kind = "tcp" /\ loop = "select"
    /\ loop' = "panicked"
    /\ UNCHANGED <<portVars, regVars, kind, shutdown, minted, incoming, consumed, registry, bridgeVars>>

\* A listener loop that spawns the pump whatever the first message is.
TcpRecvFirst_AnyFrame(b) ==
    /\ kind = "tcp" /\ loop = "await_sender"
    /\ pc[b] = "await_sender"
    /\ Pending(b)
    /\ rd' = [rd EXCEPT ![b] = @ + 1]
    /\ pc' = [pc EXCEPT ![b] = "pump"]
    /\ pump' = [pump EXCEPT ![b] = [@ EXCEPT !.r2t = "read", !.t2r = "read"]]
    /\ loop' = "select"
    /\ UNCHANGED <<portVars, regVars, kind, shutdown, minted, incoming, consumed, registry,
                   dgram, enq, client_cancel, remove_signal, bg, pushed, hand, out>>

\* data_channel_rx.recv().await: DataSender(sender) => the pump task is spawned
\* and the loop goes on; anything else panics the loop.
TcpRecvFirst(b) ==
    /\ kind = "tcp" /\ loop = "await_sender"
    /\ pc[b] = "await_sender"
    /\ Pending(b)
    /\ rd' = [rd EXCEPT ![b] = @ + 1]
    /\ IF NextFrame(b).type = "Sender"
       THEN /\ pc' = [pc EXCEPT ![b] = "pump"]
            /\ pump' = [pump EXCEPT ![b] = [@ EXCEPT !.r2t = "read", !.t2r = "read"]]
            /\ loop' = "select"
       ELSE /\ pc' = [pc EXCEPT ![b] = "panicked"]
            /\ pump' = pump
            /\ loop' = "panicked"
    /\ UNCHANGED <<portVars, regVars, kind, shutdown, minted, incoming, consumed, registry,
                   dgram, enq, client_cancel, remove_signal, bg, pushed, hand, out>>

\* io::copy(&mut remote_reader, &mut tunnel_writer): a chunk is read from the
\* user socket; EOF ends the copy and shuts the tunnel writer down; a read
\* error panics the task (unwrap).
R2tRead(b) ==
    /\ pc[b] = "pump" /\ pump[b].r2t = "read"
    /\ \/ /\ ChunksRead < MaxChunks
          /\ pump' = [pump EXCEPT ![b] = [@ EXCEPT !.r2t = "write", !.nread = @ + 1,
                                                   !.rhand = <<pump[b].nread + 1>>]]
          /\ pc' = pc
       \/ /\ pump' = [pump EXCEPT ![b] = [@ EXCEPT !.r2t = "done"]]
          /\ pc' = [pc EXCEPT ![b] = Joined(pump'[b])]
       \/ /\ pc' = [pc EXCEPT ![b] = "panicked"]
          /\ pump' = pump
    /\ UNCHANGED <<portVars, regVars, kind, shutdown, loop, minted, incoming, consumed, registry,
                   dgram, enq, rd, client_cancel, remove_signal, bg, pushed, hand, out>>

\* A writer that pushes the chunk in hand twice.
R2tWrite_Twice(b) ==
    /\ pc[b] = "pump" /\ pump[b].r2t = "write"
    /\ pushed' = [pushed EXCEPT ![b] = Append(Append(@, pump[b].rhand), pump[b].rhand)]
    /\ pump' = [pump EXCEPT ![b] = [@ EXCEPT !.r2t = "read", !.rhand = <<>>]]
    /\ UNCHANGED <<portVars, regVars, kind, shutdown, loop, minted, incoming, consumed, registry,
                   pc, dgram, enq, rd, client_cancel, remove_signal, bg, hand, out>>

\* The chunk read is pushed on the sender handle; a closed handle fails the
\* copy and panics the task (unwrap).
R2tWrite(b) ==
    /\ pc[b] = "pump" /\ pump[b].r2t = "write"
    /\ \/ /\ pushed' = [pushed EXCEPT ![b] = Append(@, pump[b].rhand)]
          /\ pump' = [pump EXCEPT ![b] = [@ EXCEPT !.r2t = "read", !.rhand = <<>>]]
          /\ pc' = pc
       \/ /\ pc' = [pc EXCEPT ![b] = "panicked"]
          /\ UNCHANGED <<pushed, pump>>
    /\ UNCHANGED <<portVars, regVars, kind, shutdown, loop, minted, incoming, consumed, registry,
                   dgram, enq, rd, client_cancel, remove_signal, bg, hand, out>>

\* io::copy(&mut tunnel_reader, &mut remote_writer): the reader pulls the next
\* Data frame; a closed and drained channel is EOF and shuts the remote writer
\* down; a frame that is not Data ends the task.
T2rRead(b) ==
    /\ pc[b] = "pump" /\ pump[b].t2r = "read"
    /\ \/ /\ Pending(b)
          /\ rd' = [rd EXCEPT ![b] = @ + 1]
          /\ IF NextFrame(b).type = "Data"
             THEN /\ hand' = [hand EXCEPT ![b] = NextFrame(b).data]
                  /\ pump' = [pump EXCEPT ![b] = [@ EXCEPT !.t2r = "write"]]
                  /\ pc' = pc
             ELSE /\ pc' = [pc EXCEPT ![b] = "panicked"]
                  /\ UNCHANGED <<hand, pump>>
       \/ /\ ~Pending(b) /\ Closed(b)
          /\ pump' = [pump EXCEPT ![b] = [@ EXCEPT !.t2r = "done"]]
          /\ pc' = [pc EXCEPT ![b] = Joined(pump'[b])]
          /\ UNCHANGED <<rd, hand>>
    /\ UNCHANGED <<portVars, regVars, kind, shutdown, loop, minted, incoming, consumed, registry,
                   dgram, enq, client_cancel, remove_signal, bg, pushed, out>>

\* The bytes in hand are written to the user socket; a write error panics the
\* task (unwrap).
T2rWrite(b) ==
    /\ pc[b] = "pump" /\ pump[b].t2r = "write"
    /\ \/ /\ out' = [out EXCEPT ![b] = Append(@, hand[b])]
          /\ hand' = [hand EXCEPT ![b] = <<>>]
          /\ pump' = [pump EXCEPT ![b] = [@ EXCEPT !.t2r = "read"]]
          /\ pc' = pc
       \/ /\ pc' = [pc EXCEPT ![b] = "panicked"]
          /\ UNCHANGED <<out, hand, pump>>
    /\ UNCHANGED <<portVars, regVars, kind, shutdown, loop, minted, incoming, consumed, registry,
                   dgram, enq, rd, client_cancel, remove_signal, bg, pushed>>

LoopStep ==
    \/ UdpShutdown
    \/ TcpCancel
    \/ \E b \in Bridges : TcpRecvFirst(b)

TaskStep(b) ==
    \/ InitBridge(b)
    \/ HandshakeRecv(b)
    \/ HandshakeCancel(b)
    \/ TransferSend(b)
    \/ TransferRecv(b)
    \/ TransferReply(b)
    \/ Finish(b)
    \/ R2tRead(b)
    \/ R2tWrite(b)
    \/ T2rRead(b)
    \/ T2rWrite(b)

Next ==
    \/ \E peer \in Peers, payload \in Payloads : UdpRecvFrom(peer, payload)
    \/ UdpRecvErr
    \/ \E peer \in Peers : TcpAccept(peer)
    \/ TcpAcceptErr
    \/ LoopStep
    \/ \E b \in Bridges : TaskStep(b)
    \/ \E b \in Bridges : BgRemove(b)
    \/ RegistryRecv
    \/ \E b \in Bridges : ClientStart(b)
    \/ \E b \in Bridges : ClientSending(b)
    \/ \E b \in Bridges : ClientClose(b)
    \/ Shutdown

Spec == TunnelInit /\ [][Next]_vars

\* The runtime schedules every task that can run: the listener loop, the
\* worker tasks and the Remove-forwarding tasks. The client, the users and the
\* session's shutdown are under no obligation.
FairSpec ==
    /\ Spec
    /\ WF_vars(LoopStep)
    /\ \A b \in StreamIds : /\ WF_vars(b \in Bridges /\ TaskStep(b))
                           /\ WF_vars(b \in Bridges /\ BgRemove(b))

-----------------------------------------------------------------------------
(* TcpManager::handle_listeners: the registration events *)

\* Registration events the sessions get to send.
MaxEvents == 3

\* The ports asked for: 0 (any free port) and one fixed port.
RegPorts == {0, 8080}

\* A registration event: the port asked for, what was sent on its oneshot,
\* the listener tasks started for it, the listener's state and its cancel token.
NewEvent(port) ==
    [port |-> port, reply |-> <<>>, tasks |-> 0, listener |-> "none", cancel |-> FALSE]

\* The fixed port is held by the listener of an earlier registration.
Listening(port) ==
    port > 0 /\ \E j \in 1..Len(events) :
                    events[j].port = port /\ events[j].listener = "running"

\* create_listener(port): Ok(listener) or a typed status; a port that one of
\* the manager's listeners holds cannot be bound again.
ListenOutcomes(port) ==
    IF Listening(port) THEN {"AlreadyExists"}
    ELSE {"Ok", "AlreadyExists", "PermissionDenied", "Internal"}

RegInit ==
    /\ free = Range /\ removed = {} /\ leases = {} /\ cs = IdleCall
    /\ kind = "tcp" /\ shutdown = FALSE /\ loop = "select" /\ minted = 0
    /\ pc = <<>> /\ dgram = <<>> /\ enq = <<>> /\ rd = <<>>
    /\ client_cancel = <<>> /\ remove_signal = <<>> /\ bg = <<>>
    /\ incoming = <<>> /\ consumed = 0 /\ registry = {}
    /\ pushed = <<>> /\ hand = <<>> /\ out = <<>> /\ pump = <<>>
    /\ events = <<>> /\ handled = 0 /\ mgr = "recv" /\ chan = "open"

\* A session sends Event { resp, payload: TcpRegister { port, cancel, .. } }
\* and waits for the reply on the oneshot.
Register(port) ==
    /\ chan = "open"
    /\ Len(events) < MaxEvents
    /\ events' = Append(events, NewEvent(port))
    /\ UNCHANGED <<portVars, tunnelVars, handled, mgr, chan>>

\* Every sender of the event channel is dropped.
CloseChan ==
    /\ chan = "open"
    /\ chan' = "closed"
    /\ UNCHANGED <<portVars, tunnelVars, events, handled, mgr>>

\* A manager that starts the listener task whatever create_listener returned.
HandleEvent_AlwaysSpawn ==
    /\ mgr = "recv"
    /\ handled < Len(events)
    /\ \E outcome \in ListenOutcomes(events[handled + 1].port) :
          events' = [events EXCEPT ![handled + 1] =
                        [@ EXCEPT !.tasks = @ + 1, !.listener = "running",
                                  !.reply = Append(@, IF outcome = "Ok" THEN "None"
                                                      ELSE outcome)]]
    /\ handled' = handled + 1
    /\ UNCHANGED <<portVars, tunnelVars, mgr, chan>>

\* while let Some(event) = receiver.recv().await: create_listener(port);
\* Ok(listener) => spawn(handle_listener), event.resp.send(None);
\* Err(status) => event.resp.send(Some(status)).
HandleEvent ==
    /\ mgr = "recv"
    /\ handled < Len(events)
    /\ \E outcome \in ListenOutcomes(events[handled + 1].port) :
          events' = [events EXCEPT ![handled + 1] =
                        IF outcome = "Ok"
                        THEN [@ EXCEPT !.tasks = @ + 1, !.listener = "running",
                                       !.reply = Append(@, "None")]
                        ELSE [@ EXCEPT !.reply = Append(@, outcome)]]
    /\ handled' = handled + 1
    /\ UNCHANGED <<portVars, tunnelVars, mgr, chan>>

\* receiver.recv() returns None: the channel is closed and drained, the loop
\* ends ("tcp manager quit").
ManagerQuit ==
    /\ mgr = "recv"
    /\ handled = Len(events) /\ chan = "closed"
    /\ mgr' = "quit"
    /\ UNCHANGED <<portVars, tunnelVars, events, handled, chan>>

\* The session that owns the tunnel of event e cancels its token.
CancelTunnel(e) ==
    /\ ~events[e].cancel
    /\ events' = [events EXCEPT ![e] = [@ EXCEPT !.cancel = TRUE]]
    /\ UNCHANGED <<portVars, tunnelVars, handled, mgr, chan>>

\* handle_listener: select! { _ = cancel.cancelled() => return }; the listener
\* is dropped and its port can be bound again.
ListenerReturn(e) ==
    /\ events[e].listener = "running" /\ events[e].cancel
    /\ events' = [events EXCEPT ![e] = [@ EXCEPT !.listener = "returned"]]
    /\ UNCHANGED <<portVars, tunnelVars, handled, mgr, chan>>

RegNext ==
    \/ \E port \in RegPorts : Register(port)
    \/ CloseChan
    \/ HandleEvent
    \/ ManagerQuit
    \/ \E e \in 1..Len(events) : CancelTunnel(e)
    \/ \E e \in 1..Len(events) : ListenerReturn(e)

RegSpec == RegInit /\ [][RegNext]_vars

\* The manager's task is scheduled whenever it has an event to receive.
FairRegSpec == RegSpec /\ WF_vars(HandleEvent) /\ WF_vars(ManagerQuit)

-----------------------------------------------------------------------------
(* Claims about the bridge handshake and the UDP worker *)

Count(seq, x) == Cardinality({i \in 1..Len(seq) : seq[i] = x})

\* The worker task of bridge b has ended: normally, by a panic, or by the
\* unwrap() of the handshake's "client cancelled" error.
Exited(b) == pc[b] \in {"done", "panicked", "hs_cancelled"}

\* The handshake handed a bridge to the worker.
Usable(b) == pc[b] \in {"send", "recv", "reply", "finish", "done", "pump"}

\* The frames the worker pulled off to_client after the handshake's first one.
PulledAfterFirst(b) == SubSeq(enq[b], 2, rd[b])

\* C1: the registry channel carries at most one Remove(id) per bridge id.
C1_AtMostOneRemove ==
    \A b \in Bridges : Count(incoming, Removed(b)) <= 1

\* C1 witness: a handshake was cancelled by the client, remove_signal was
\* raised on that path, the worker has ended and Remove(id) was sent once.
C1_Witness ==
    \E b \in Bridges :
        /\ pc[b] = "hs_cancelled" /\ remove_signal[b] /\ bg[b] = "sent"
        /\ Count(incoming, Removed(b)) = 1

\* C2: on every exit path of a UDP worker whose bridge was published with Add,
\* remove_signal is raised, so that the background task publishes Remove(id).
C2_RemoveOnEveryExit ==
    \A b \in Bridges :
        (kind = "udp" /\ Exited(b) /\ Count(incoming, Added(b)) = 1)
            => (remove_signal[b] /\ bg[b] \in {"waiting", "sent"})

\* C3: a bridge is handed to its worker only after Sender was the first frame
\* pulled off to_client; when the first frame pulled is not Sender the worker
\* ends there, having pushed nothing toward the client, pulled nothing more
\* and sent nothing to the user.
C3_FirstFrameIsSender ==
    \A b \in Bridges :
        /\ Usable(b) => (rd[b] >= 1 /\ enq[b][1].type = "Sender")
        /\ (rd[b] >= 1 /\ enq[b][1].type # "Sender") =>
              /\ pc[b] = "panicked"
              /\ rd[b] = 1 /\ pushed[b] = <<>> /\ out[b] = <<>>

\* C3 witness: the client sent Data before Start, the handshake pulled it as
\* its first frame and the worker ended.
C3_Witness ==
    \E b \in Bridges :
        /\ rd[b] = 1 /\ enq[b][1].type = "Data"
        /\ pc[b] = "panicked"

\* C10: each datagram has one Add of its own, and its peer is sent at most one
\* datagram, only after the payload was pushed on the sender handle and exactly
\* one Data(reply) frame was received, with that reply as content.
C10_OneRequestOneResponse ==
    \A b \in Bridges :
        kind = "udp" =>
            /\ Count(incoming, Added(b)) <= 1
            /\ Len(out[b]) <= 1
            /\ out[b] # <<>> =>
                 /\ pushed[b] = <<dgram[b].payload>>
                 /\ Len(PulledAfterFirst(b)) = 1
                 /\ PulledAfterFirst(b)[1].type = "Data"
                 /\ out[b][1] = [peer |-> dgram[b].peer, data |-> PulledAfterFirst(b)[1].data]

-----------------------------------------------------------------------------
(* Claims about the TCP listener loop and its splice *)

\* The chunks read from the user socket so far: the k-th one is <<k>>.
ReadSeq(n) == [i \in 1..n |-> <<i>>]

\* The bytes of the Data frames of a sequence of frames, in order.
RECURSIVE DataOf(_)
DataOf(frames) ==
    IF frames = <<>> THEN <<>>
    ELSE (IF Head(frames).type = "Data" THEN <<Head(frames).data>> ELSE <<>>)
         \o DataOf(Tail(frames))

Spliced(b) == kind = "tcp" /\ pc[b] \in {"pump", "done", "panicked"} /\ pump[b].r2t # "idle"

\* C4: for every TCP connection, the chunks pushed on the sender handle,
\* followed by the chunk read and not yet pushed, are the chunks read from the
\* user socket, in order; the chunks written to the user socket, followed by
\* the one pulled and not yet written, are the Data frames pulled off
\* to_client, in order; a direction that ended with EOF has delivered
\* everything it was given.
C4_NoReorderLossDup ==
    \A b \in Bridges :
        Spliced(b) =>
            /\ pushed[b] \o (IF pump[b].r2t = "write" THEN <<pump[b].rhand>> ELSE <<>>)
                 = ReadSeq(pump[b].nread)
            /\ out[b] \o (IF pump[b].t2r = "write" THEN <<hand[b]>> ELSE <<>>)
                 = DataOf(PulledAfterFirst(b))
            /\ pump[b].r2t = "done" => pushed[b] = ReadSeq(pump[b].nread)
            /\ pump[b].t2r = "done" => out[b] = DataOf(SubSeq(enq[b], 2, Len(enq[b])))

\* C4 witness: one connection has pushed two chunks toward the client and
\* written two Data frames to the user, and both directions ended with EOF.
C4_Witness ==
    \E b \in Bridges :
        /\ kind = "tcp" /\ pc[b] = "done"
        /\ Len(pushed[b]) = 2 /\ Len(out[b]) = 2

\* The listener loop has ended: the listener (or socket) is dropped.
LoopEnded == loop \in {"returned", "panicked"}

\* C5: once the tunnel's cancellation token is cancelled, the listener loop
\* ends, whatever it was doing.
C5_LoopReturnsAfterCancel == shutdown ~> LoopEnded

-----------------------------------------------------------------------------
(* Claims about cancellation, removal and the splice's end *)

\* The per-datagram task of b took a cancelled() branch of Udp::transfer and is
\* at a later await: it is past the first select! with nothing pushed, or past
\* the second select! with nothing pulled after the handshake's frame.
CancelObserved(b) ==
    /\ kind = "udp"
    /\ \/ pc[b] \in {"recv", "reply"} /\ pushed[b] = <<>>
       \/ pc[b] = "reply" /\ rd[b] = 1

\* C11: once client_cancel has won one of the per-datagram task's awaits, the
\* task pushes nothing on the sender handle, pulls nothing off to_client,
\* sends no datagram to the peer and does not panic.
C11_CancelExitsSilently ==
    [][\A b \in Bridges :
          CancelObserved(b) =>
              /\ pushed'[b] = pushed[b] /\ rd'[b] = rd[b] /\ out'[b] = out[b]
              /\ pc'[b] # "panicked"]_vars

\* The session has received Remove(id) of bridge b.
RemoveConsumed(b) == \E i \in 1..consumed : incoming[i] = Removed(b)

\* C12 as stated: whenever remove_signal of a bridge has fired the registry has
\* no entry for it, and no frame is enqueued on its to_client afterwards.
C12_RemovedNoLaterThanSignal ==
    /\ [](\A b \in Bridges : remove_signal[b] => b \notin registry)
    /\ [][\A b \in Bridges : remove_signal[b] => enq'[b] = enq[b]]_vars

\* C12: whenever the session has received Remove(id) of a bridge, which the
\* background task publishes after remove_signal fired, the registry has no
\* entry for it, and no frame is enqueued on its to_client afterwards.
C12_RemovedOnRemoveEvent ==
    /\ [](\A b \in Bridges : RemoveConsumed(b) => b \notin registry)
    /\ [][\A b \in Bridges : RemoveConsumed(b) => enq'[b] = enq[b]]_vars

\* C12 witness: a bridge that received frames was removed by its Remove(id)
\* while the session is open and the client still has frames to send.
C12_Witness ==
    \E b \in Bridges :
        /\ RemoveConsumed(b) /\ remove_signal[b] /\ b \notin registry
        /\ enq[b] # <<>> /\ ~shutdown /\ FramesSent < MaxFrames

\* C13: once one direction of a TCP connection has ended, the other direction
\* moves no more data: nothing more is written to the user after
\* remote_to_me_to_tunnel ended, nothing more is pushed toward the client
\* after tunnel_to_me_to_remove ended.
C13_EitherEndCancelsOther ==
    [][\A b \in Bridges :
          (kind = "tcp" /\ pc[b] = "pump") =>
              /\ pump[b].r2t = "done" => out'[b] = out[b]
              /\ pump[b].t2r = "done" => pushed'[b] = pushed[b]]_vars

-----------------------------------------------------------------------------
(* Claims about the handshake frame and the listener loop's failures *)

\* The frames the worker of b has pulled off to_client so far.
Pulled(b) == SubSeq(enq[b], 1, rd[b])

C15_HandshakeCancelPath ==
    \A b \in Bridges :
        pc[b] = "hs_cancelled" =>
            /\ client_cancel[b] /\ remove_signal[b]
            /\ rd[b] = 0 /\ pushed[b] = <<>> /\ out[b] = <<>>

\* C15 witness: the client closed the stream before its Start; the handshake
\* took the cancel branch, the Sender frame that came later stays unpulled
\* and the Remove-forwarding task has not run yet.
C15_Witness ==
    \E b \in Bridges :
        /\ pc[b] = "hs_cancelled" /\ remove_signal[b] /\ bg[b] = "waiting"
        /\ enq[b] = <<SenderFrame>> /\ rd[b] = 0

\* C16: while the handshake of an accepted TCP connection waits for its Sender
\* frame, the listener loop is at its select!, where it accepts the next
\* connection and observes the cancellation.
C16_HandshakeOffTheLoop ==
    \A b \in Bridges :
        (kind = "tcp" /\ pc[b] = "await_sender") => loop = "select"

\* C17: no failure of one user connection ends the TCP listener loop: the
\* loop ends only by returning on the tunnel's cancellation.
C17_FailureCancelsBridgeOnly ==
    kind = "tcp" => (LoopEnded => (loop = "returned" /\ shutdown))

-----------------------------------------------------------------------------
(* Claims about registration, task termination and Close *)

\* What the manager has done for the events it received, and for the others.
RepliedOnce(e) ==
    /\ Len(events[e].reply) = 1
    /\ (events[e].reply[1] = "None") <=> (events[e].listener # "none")
    /\ events[e].reply[1] \in {"None", "AlreadyExists", "PermissionDenied", "Internal"}
    /\ events[e].tasks = (IF events[e].reply[1] = "None" THEN 1 ELSE 0)

Untouched(e) ==
    events[e].reply = <<>> /\ events[e].tasks = 0 /\ events[e].listener = "none"

C19_TasksEndAfterCancel ==
    shutdown ~> (\A b \in Bridges : Exited(b) => bg[b] # "waiting")

\* C20: a Close for stream s raises client_cancel of bridge s and leaves the
\* client_cancel and the to_client queue of every other bridge, and the queue
\* of s, as they were; a Close on a bridge already cancelled changes nothing.
C20_CloseTargetsOneBridge ==
    [][\A b \in Bridges :
          ClientClose(b) =>
              /\ client_cancel'[b]
              /\ \A o \in Bridges \ {b} : client_cancel'[o] = client_cancel[o]
              /\ enq' = enq
              /\ client_cancel[b] => UNCHANGED vars]_vars

\* C20 witness: of two bridges of the session, both with frames on their
\* queues, the first was closed and the second was not.
C20_Witness ==
    /\ minted = 2 /\ registry = {1, 2} /\ ~shutdown
    /\ client_cancel = <<TRUE, FALSE>>
    /\ enq[1] # <<>> /\ enq[2] # <<>>

-----------------------------------------------------------------------------
(* Claims about the order of Add and Remove and about the fixed-port path *)

\* C21: on the registry channel every Remove(id) comes after the Add(id) of
\* the same bridge, so that no Remove(id) is published for an id not Added.
C21_AddBeforeRemove ==
    \A i \in 1..Len(incoming) :
        incoming[i].op = "Remove" =>
            \E j \in 1..(i - 1) : incoming[j] = Added(incoming[i].id)

\* C21 witness: two bridges were published; the worker of one ran to its end
\* and the handshake of the other was cancelled, and both were Removed.
C21_Witness ==
    /\ minted = 2 /\ Len(incoming) = 4
    /\ \E b, o \in Bridges :
          /\ pc[b] = "done" /\ pc[o] = "hs_cancelled"
          /\ bg[b] = "sent" /\ bg[o] = "sent"

\* C22: a step of the fixed-port path of create_socket (port > 0) leaves the
\* PortManager's free set and its removed ports as they were, whether the
\* bind succeeds or fails.
C22_FixedPathLeavesFreeSet ==
    [][(cs.pc = "fixed_bind" /\ cs' # cs) =>
          (free' = free /\ removed' = removed)]_vars

\* C22 witness: a fixed port of the managed range was bound and is still in
\* the free set.
C22_Witness ==
    /\ cs.pc = "idle" /\ cs.port \in Range /\ cs.status = "Ok"
    /\ Occupied(cs.proto, cs.port)
    /\ cs.port \in free

-----------------------------------------------------------------------------
(* Claims about the UDP serve loop and the frames behind the Sender *)

\* C23: the UDP serve loop leaves its select! only by returning, and only
\* with the shutdown token cancelled, whatever happened to its per-datagram
\* tasks; once it has returned it stays returned and takes no new datagram,
\* so that no bridge is opened and no Add is published for one.
C23_UdpLoopEndsOnlyOnShutdown ==
    /\ [](kind = "udp" => /\ loop \in {"select", "returned"}
                          /\ loop = "returned" => shutdown)
    /\ [][(kind = "udp" /\ loop = "returned") =>
             /\ loop' = "returned" /\ minted' = minted
             /\ \A i \in 1..Len(incoming') :
                   incoming'[i].op = "Add" => incoming'[i].id \in Bridges]_vars

\* C23 witness: one per-datagram task panicked on a protocol violation and
\* the handshake of another was cancelled; the token is not cancelled and the
\* loop is at its select!.
C23_Witness ==
    /\ kind = "udp" /\ loop = "select" /\ ~shutdown
    /\ \E b, o \in Bridges : pc[b] = "panicked" /\ pc[o] = "hs_cancelled"

\* The worker of b holds a Data frame received after the handshake.
Received(b) == kind = "udp" /\ rd[b] = 2 /\ pc[b] \in {"reply", "finish", "done"}

=============================================================================
